---------------------------- MODULE Spec2Model ----------------------------
(***************************************************************************)
(* Model of ibkr_stock_dashboard.py: one Streamlit script run (main) over  *)
(* the trade report snapshot held in S3.                                   *)
(*                                                                         *)
(* Representation.                                                         *)
(*   - A numeric cell is a sequence: <<v>> is the number v, <<>> is NaN    *)
(*     (pandas' marker of a blank CSV cell).  Money is counted in          *)
(*     hundredths, so 150 is 1.50.                                         *)
(*   - A quotient of two numbers is <<num, den>> in lowest terms with      *)
(*     den > 0; <<1,0>> and <<-1,0>> are +inf and -inf, <<>> is NaN.       *)
(*   - A date string is the sequence of its characters; <<>> is a blank    *)
(*     cell (a float NaN, not a string).                                   *)
(*   - A data frame is a record of its column names and its rows; a row    *)
(*     carries idx, its pandas index label (the position in the CSV).      *)
(***************************************************************************)
EXTENDS Integers, Sequences, FiniteSets, TLC

VARIABLES
    snapshot,       \* the CSV object stored under TRADE_REPORT_FILE
    status_filter,  \* the value held by the "Filter by Trade Status" selectbox
    out,            \* what the last script run computed and emitted
    runs            \* number of script runs so far

vars == <<snapshot, status_filter, out, runs>>

-----------------------------------------------------------------------------
(* Bounds of the model *)

MaxRows == 2
MaxRuns == 2

-----------------------------------------------------------------------------
(* Numbers with NaN *)

NaN == <<>>

Num(v) == <<v>>

isnull(x) == x = NaN

Val(x) == x[1]

Abs(n) == IF n < 0 THEN -n ELSE n

RECURSIVE GCD(_, _)
GCD(a, b) == IF b = 0 THEN a ELSE GCD(b, a % b)

\* float division a / b of two numbers (numpy semantics: no exception)
TrueDiv(a, b) ==
    IF b = 0
    THEN (IF a = 0 THEN NaN ELSE IF a > 0 THEN <<1, 0>> ELSE <<-1, 0>>)
    ELSE LET g == GCD(Abs(a), Abs(b))
             s == IF b < 0 THEN -1 ELSE 1
         IN  <<(s * a) \div g, (s * b) \div g>>

\* q * k for a quotient q and a positive number k
QMul(q, k) ==
    IF q = NaN THEN NaN
    ELSE IF q[2] = 0 THEN q
    ELSE TrueDiv(q[1] * k, q[2])

\* q >= k for a quotient q: every comparison with NaN is False
QGe(q, k) ==
    IF q = NaN THEN FALSE
    ELSE IF q[2] = 0 THEN q[1] > 0
    ELSE q[1] >= k * q[2]

-----------------------------------------------------------------------------
(* Dates: datetime.strptime(x, '%Y-%m-%d').date() and date subtraction *)

Digits == <<"0", "1", "2", "3", "4", "5", "6", "7", "8", "9">>

IsDigit(c) == \E i \in 1..10 : Digits[i] = c

DigitVal(c) == (CHOOSE i \in 1..10 : Digits[i] = c) - 1

RECURSIVE ToInt(_)
ToInt(s) ==
    IF s = <<>> THEN 0
    ELSE 10 * ToInt(SubSeq(s, 1, Len(s) - 1)) + DigitVal(s[Len(s)])

AllDigits(s) == \A i \in 1..Len(s) : IsDigit(s[i])

IsLeap(y) == (y % 4 = 0) /\ ((y % 100 # 0) \/ (y % 400 = 0))

DaysInMonth(y, m) ==
    IF m \in {1, 3, 5, 7, 8, 10, 12} THEN 31
    ELSE IF m \in {4, 6, 9, 11} THEN 30
    ELSE IF IsLeap(y) THEN 29 ELSE 28

RECURSIVE DaysBeforeMonth(_, _)
DaysBeforeMonth(y, m) ==
    IF m = 1 THEN 0 ELSE DaysBeforeMonth(y, m - 1) + DaysInMonth(y, m - 1)

DaysBeforeYear(y) ==
    LET p == y - 1 IN p * 365 + (p \div 4) - (p \div 100) + (p \div 400)

\* date.toordinal() of the date <<y, m, d>>
toordinal(d) == DaysBeforeYear(d[1]) + DaysBeforeMonth(d[1], d[2]) + d[3]

\* (a - b).days
DaysBetween(a, b) == toordinal(a) - toordinal(b)

NoDate == <<0, 0, 0>>

\* strptime with the format '%Y-%m-%d': four digits, '-', one or two digits
\* in 1..12, '-', one or two digits in 1..31, nothing left over, and the day
\* must exist in that month.  A blank cell is a float: TypeError.
strptime(x) ==
    IF x = <<>> THEN [err |-> "TypeError", date |-> NoDate]
    ELSE
      LET dashes == {i \in 1..Len(x) : x[i] = "-"}
          d2 == CHOOSE i \in dashes : i # 5
          Y  == SubSeq(x, 1, 4)
          M  == SubSeq(x, 6, d2 - 1)
          D  == SubSeq(x, d2 + 1, Len(x))
          shape == /\ Cardinality(dashes) = 2
                   /\ 5 \in dashes
                   /\ d2 > 5
                   /\ AllDigits(Y) /\ AllDigits(M) /\ AllDigits(D)
                   /\ Len(M) \in 1..2 /\ Len(D) \in 1..2
                   /\ ToInt(M) \in 1..12 /\ ToInt(D) \in 1..31
      IN  IF shape /\ ToInt(Y) >= 1 /\ ToInt(D) <= DaysInMonth(ToInt(Y), ToInt(M))
          THEN [err |-> "none", date |-> <<ToInt(Y), ToInt(M), ToInt(D)>>]
          ELSE [err |-> "ValueError", date |-> NoDate]

-----------------------------------------------------------------------------
(* Column arithmetic and reductions (pandas: NaN propagates through        *)
(* arithmetic, comparisons with NaN are False, sum() skips NaN)            *)

Multiplier == 100

\* column *= k
MulBy(x, k) == IF isnull(x) THEN NaN ELSE Num(Val(x) * k)

Sub(x, y) == IF isnull(x) \/ isnull(y) THEN NaN ELSE Num(Val(x) - Val(y))

Mul(x, y) == IF isnull(x) \/ isnull(y) THEN NaN ELSE Num(Val(x) * Val(y))

\* x >= k
Ge(x, k) == IF isnull(x) THEN FALSE ELSE Val(x) >= k

\* Series.sum(): NaN cells are skipped, the empty sum is 0
RECURSIVE nansum(_)
nansum(cells) ==
    IF cells = <<>> THEN 0
    ELSE (IF isnull(Head(cells)) THEN 0 ELSE Val(Head(cells))) + nansum(Tail(cells))

\* df[name]
Column(rows, name) == [i \in 1..Len(rows) |-> rows[i][name]]

-----------------------------------------------------------------------------
(* The steps of main() *)

AllColumns ==
    {"Symbol", "Pos", "Profit", "EntrySum", "MarkPrice", "OpenPrice",
     "PositionValue", "exp_dt", "FifoPnlUnrealized", "EarliestEntryDate",
     "ProfitPercent"}

\* the columns selected for the Trade Entries table
DisplayColumns ==
    {"Symbol", "DTE", "Unrealized", "PositionValue", "EarliestEntryDate",
     "EntrySum", "Profit", "ProfitPercent", "exp_dt", "MarkPrice"}

\* the options of the status selectbox, in the order given; index 0 is the default
StatusOptions == <<"Open", "All", "Close">>

\* the symbols of the model in their sort order (the order groupby emits)
SymbolOrder == <<"AAPL", "MSFT">>

None == [columns |-> {}, rows |-> <<>>, none |-> TRUE]

\* get_object + read_csv; any exception is caught and None returned
load_data_from_s3(file, s3ok) ==
    IF s3ok THEN [columns |-> file.columns, rows |-> file.rows, none |-> FALSE]
    ELSE None

\* EntrySum left unscaled
ScaleOptions_ProfitOnly(rows) ==
    [i \in 1..Len(rows) |-> [rows[i] EXCEPT !.Profit = MulBy(@, Multiplier)]]

\* trade_df['Profit'] *= 100 ; trade_df['EntrySum'] *= 100
ScaleOptions(rows) ==
    [i \in 1..Len(rows) |->
        [rows[i] EXCEPT !.Profit = MulBy(@, Multiplier),
                        !.EntrySum = MulBy(@, Multiplier)]]

\* the first exception raised by the row-wise strptime, "none" if none
RECURSIVE DateError(_)
DateError(rows) ==
    IF rows = <<>> THEN "none"
    ELSE IF strptime(Head(rows).exp_dt).err # "none"
         THEN strptime(Head(rows).exp_dt).err
         ELSE DateError(Tail(rows))

\* past expirations clamped to 0
DeriveDTE_Clamped(rows, today) ==
    [i \in 1..Len(rows) |->
        [DTE |-> IF DaysBetween(strptime(rows[i].exp_dt).date, today) < 0 THEN 0
                 ELSE DaysBetween(strptime(rows[i].exp_dt).date, today)] @@ rows[i]]

\* trade_df['DTE'] = (strptime(exp_dt).date() - today).days
DeriveDTE(rows, today) ==
    [i \in 1..Len(rows) |->
        [DTE |-> DaysBetween(strptime(rows[i].exp_dt).date, today)] @@ rows[i]]

\* the closed filter left out
ClosedOnly_AllRows(rows) == rows

\* trade_df[trade_df['Pos'] == 'close']
ClosedOnly(rows) == SelectSeq(rows, LAMBDA r : r.Pos = "close")

\* percent_roi = (total_profit / total_entry) * 100 if total_entry != 0 else 0
PercentRoi(total_profit, total_entry) ==
    IF total_entry # 0
    THEN QMul(TrueDiv(total_profit, total_entry), 100)
    ELSE <<0, 1>>

Summarize(rows) ==
    LET closed_df == ClosedOnly(rows)
        total_profit == nansum(Column(closed_df, "Profit"))
        total_entry == nansum(Column(closed_df, "EntrySum"))
    IN  [total_profit |-> total_profit,
         total_entry |-> total_entry,
         percent_roi |-> PercentRoi(total_profit, total_entry),
         total_unrealized |-> nansum(Column(rows, "FifoPnlUnrealized"))]

\* the test on Pos left out
UnrealizedOf_AnyPos(row) ==
    IF ~isnull(row.MarkPrice) /\ ~isnull(row.OpenPrice)
    THEN Mul(Sub(row.MarkPrice, row.OpenPrice), row.PositionValue)
    ELSE Num(0)

\* the lambda of the Unrealized column
UnrealizedOf(row) ==
    IF row.Pos = "open" /\ ~isnull(row.MarkPrice) /\ ~isnull(row.OpenPrice)
    THEN Mul(Sub(row.MarkPrice, row.OpenPrice), row.PositionValue)
    ELSE Num(0)

\* the lambda reads row['MarkPrice'], row['OpenPrice'], row['PositionValue']
\* only as far as the short-circuit evaluation gets
UnrealizedKeyError(columns, row) ==
    /\ row.Pos = "open"
    /\ \/ "MarkPrice" \notin columns
       \/ /\ ~isnull(row.MarkPrice)
          /\ \/ "OpenPrice" \notin columns
             \/ ~isnull(row.OpenPrice) /\ "PositionValue" \notin columns

AddUnrealized(rows) ==
    [i \in 1..Len(rows) |-> [Unrealized |-> UnrealizedOf(rows[i])] @@ rows[i]]

\* an unknown value selects nothing
FilterByStatus_Strict(rows, status) ==
    IF status = "Open" THEN SelectSeq(rows, LAMBDA r : r.Pos = "open")
    ELSE IF status = "Close" THEN SelectSeq(rows, LAMBDA r : r.Pos = "close")
    ELSE IF status = "All" THEN rows
    ELSE <<>>

\* "Close" selects whatever is not open
FilterByStatus_NotOpen(rows, status) ==
    IF status = "Open" THEN SelectSeq(rows, LAMBDA r : r.Pos = "open")
    ELSE IF status = "Close" THEN SelectSeq(rows, LAMBDA r : r.Pos # "open")
    ELSE rows

\* the if / elif / else on status_filter
FilterByStatus(rows, status) ==
    IF status = "Open" THEN SelectSeq(rows, LAMBDA r : r.Pos = "open")
    ELSE IF status = "Close" THEN SelectSeq(rows, LAMBDA r : r.Pos = "close")
    ELSE rows

IndexPermutations(n) ==
    {p \in [1..n -> 1..n] : \A i, j \in 1..n : p[i] = p[j] => i = j}

\* descending
sort_values_Descending(rows) ==
    {s \in {[i \in 1..Len(rows) |-> rows[p[i]]] : p \in IndexPermutations(Len(rows))} :
        \A i, j \in 1..Len(rows) : i < j => s[i].DTE >= s[j].DTE}

\* sort_values(by='DTE', ascending=True) with the default kind='quicksort',
\* which is not a stable sort: every ascending arrangement of the rows is a
\* possible result
sort_values(rows) ==
    {s \in {[i \in 1..Len(rows) |-> rows[p[i]]] : p \in IndexPermutations(Len(rows))} :
        \A i, j \in 1..Len(rows) : i < j => s[i].DTE <= s[j].DTE}

\* the losers kept
NonNegative_Keep(rows) == rows

\* closed_entries[closed_entries['Profit'] >= 0]
NonNegative(rows) == SelectSeq(rows, LAMBDA r : Ge(r.Profit, 0))

\* groupby('Symbol').agg({'Profit': 'sum'}).reset_index(): one row per symbol
\* present, in symbol order
GroupBySymbol(rows) ==
    LET present == SelectSeq(SymbolOrder,
                             LAMBDA s : \E i \in 1..Len(rows) : rows[i].Symbol = s)
    IN  [k \in 1..Len(present) |->
            [Symbol |-> present[k],
             Profit |-> nansum(Column(SelectSeq(rows,
                                  LAMBDA r : r.Symbol = present[k]), "Profit"))]]

\* ProfitPercent = Profit / total_profit_for_pie * 100, and the Label rule
ProfitShare(groups) ==
    LET total_profit_for_pie == nansum([k \in 1..Len(groups) |-> Num(groups[k].Profit)])
    IN  [k \in 1..Len(groups) |->
            LET pp == QMul(TrueDiv(groups[k].Profit, total_profit_for_pie), 100)
            IN  [Symbol |-> groups[k].Symbol,
                 Profit |-> groups[k].Profit,
                 ProfitPercent |-> pp,
                 Labelled |-> QGe(pp, 10)]]

PieData(rows) == ProfitShare(GroupBySymbol(NonNegative(ClosedOnly(rows))))

-----------------------------------------------------------------------------
(* What a script run emits and leaves behind *)

ErrorBox == "error:Error loading data"

ExceptionBox == "exception"

SummaryCards ==
    <<"subheader:Portfolio Summary", "metric:Total Profit", "metric:Total Entry",
      "metric:Percent ROI", "metric:Total Unrealized">>

StatusSelectbox == "selectbox:Filter by Trade Status"

TradeTable == <<"subheader:Trade Entries", "dataframe:Trade Entries">>

Charts ==
    <<"subheader:Profit Percent Distribution", "altair_chart:bar",
      "subheader:Closed Entries by Symbol", "altair_chart:pie">>

WarehouseTables ==
    <<"subheader:Bobby Entries", "dataframe:bobby_entries",
      "subheader:High Low Entries", "dataframe:high_low_entries">>

NoSummary ==
    [total_profit |-> 0, total_entry |-> 0, percent_roi |-> NaN, total_unrealized |-> 0]

\* a local of main() that no line has assigned
Unbound == "<unbound>"

\* nothing has run yet
NoOut ==
    [error |-> "none", sink |-> <<>>, today |-> NoDate, trade_df |-> <<>>,
     summary |-> NoSummary, status |-> Unbound, filtered_df |-> <<>>, grouped |-> <<>>]

\* main() from the load to the Unrealized column (lines 80-104): the frame,
\* the summary and the exception that ended it, "none" if it got through
Prepare(file, s3ok, today) ==
    LET df == load_data_from_s3(file, s3ok)
        scaled == ScaleOptions(df.rows)
        dated == DeriveDTE(scaled, today)
        error ==
            IF df.none THEN "load"
            ELSE IF "Profit" \notin df.columns \/ "EntrySum" \notin df.columns
                 THEN "KeyError"
            ELSE IF "exp_dt" \notin df.columns THEN "KeyError"
            ELSE IF DateError(scaled) # "none" THEN DateError(scaled)
            ELSE IF "Pos" \notin df.columns THEN "KeyError"
            ELSE IF "FifoPnlUnrealized" \notin df.columns THEN "KeyError"
            ELSE IF \E i \in 1..Len(dated) : UnrealizedKeyError(df.columns, dated[i])
                 THEN "KeyError"
            ELSE "none"
    IN  [error |-> error,
         columns |-> df.columns,
         loaded |-> ~df.none,
         trade_df |-> IF error = "none" THEN AddUnrealized(dated) ELSE <<>>,
         summary |-> IF error = "none" THEN Summarize(dated) ELSE NoSummary]

\* a run ended before line 107: st.error and return, or an uncaught exception
Aborted(p, today) ==
    [NoOut EXCEPT !.error = p.error,
                  !.sink = IF p.error = "load" THEN <<ErrorBox>> ELSE <<ExceptionBox>>,
                  !.today = today]

\* lines 107-189, given the arrangement sort_values returned
Rendered(p, today, status, sorted) ==
    LET table_error == ~(DisplayColumns \subseteq (p.columns \cup {"DTE", "Unrealized"}))
    IN  [error |-> IF table_error THEN "KeyError" ELSE "none",
         sink |-> SummaryCards \o <<StatusSelectbox>> \o
                  (IF table_error THEN <<ExceptionBox>>
                   ELSE TradeTable \o Charts \o WarehouseTables),
         today |-> today,
         trade_df |-> p.trade_df,
         summary |-> p.summary,
         status |-> status,
         filtered_df |-> sorted,
         grouped |-> IF table_error THEN <<>> ELSE PieData(p.trade_df)]

-----------------------------------------------------------------------------
(* The snapshots and clock readings of the model *)

D20240101 == <<"2", "0", "2", "4", "-", "0", "1", "-", "0", "1">>

D20240301 == <<"2", "0", "2", "4", "-", "0", "3", "-", "0", "1">>

BadMonth == <<"2", "0", "2", "4", "-", "1", "3", "-", "0", "1">>

BadDay == <<"2", "0", "2", "3", "-", "0", "2", "-", "2", "9">>

BadFormat == <<"0", "1", "/", "0", "1", "/", "2", "0", "2", "4">>

Blank == <<>>

Todays == {<<2023, 12, 20>>, <<2024, 1, 5>>}

BaseRow ==
    [Symbol |-> "AAPL", Pos |-> "open", Profit |-> Num(20), EntrySum |-> Num(100),
     MarkPrice |-> Num(3), OpenPrice |-> Num(1), PositionValue |-> Num(2),
     exp_dt |-> D20240101, FifoPnlUnrealized |-> Num(7)]

\* closed rows and an open row over raw <<Symbol, Profit, EntrySum>> cells, in hundredths
AggRows ==
    {[BaseRow EXCEPT !.Symbol = c[1], !.Pos = "close", !.Profit = c[2], !.EntrySum = c[3]] :
        c \in {<<"AAPL", Num(20), Num(100)>>, <<"AAPL", Num(0), Num(0)>>,
                <<"AAPL", NaN, Num(50)>>, <<"MSFT", Num(-5), Num(50)>>,
                <<"MSFT", Num(0), Num(0)>>, <<"MSFT", Num(20), Num(100)>>}}
    \cup
    {[BaseRow EXCEPT !.Pos = "open", !.Profit = Num(20), !.EntrySum = Num(150)]}

UnrealRows ==
    {[BaseRow EXCEPT !.Pos = p, !.MarkPrice = m, !.OpenPrice = o,
                     !.PositionValue = v, !.FifoPnlUnrealized = f] :
        p \in {"open", "close", ""}, m \in {NaN, Num(3)}, o \in {NaN, Num(1)},
        v \in {NaN, Num(2)}, f \in {NaN, Num(7)}}

SortRows ==
    {[BaseRow EXCEPT !.Pos = p, !.exp_dt = e] :
        p \in {"open", "close", ""}, e \in {D20240101, D20240301}}

DateRows ==
    {[BaseRow EXCEPT !.exp_dt = e] :
        e \in {D20240101, BadMonth, BadDay, BadFormat, Blank}}

\* read_csv numbers the rows from 0
WithIdx(rs) == [i \in 1..Len(rs) |-> [idx |-> i - 1] @@ rs[i]]

Frames(rowset, n) ==
    {[columns |-> AllColumns, rows |-> WithIdx(rs)] :
        rs \in UNION {[1..k -> rowset] : k \in 1..n}}

MissingColumnFrames ==
    {[columns |-> AllColumns \ {c}, rows |-> WithIdx(<<r>>)] :
        c \in AllColumns, r \in {BaseRow, [BaseRow EXCEPT !.Pos = "close"]}}

AggFrames == Frames(AggRows, MaxRows)

RowFrames == Frames(UnrealRows, 1)

SortFrames == Frames(SortRows, MaxRows)

LoadFrames == Frames(DateRows, MaxRows) \cup MissingColumnFrames

Snapshots == AggFrames \cup RowFrames \cup SortFrames \cup LoadFrames

\* values a caller could hand to the filter, the three options among them
ViewInputs == {"Open", "All", "Close", "Closed", "open", ""}

-----------------------------------------------------------------------------
(* The state machine *)

InitOn(frames, statuses) ==
    /\ snapshot \in frames
    /\ status_filter \in statuses
    /\ out = NoOut
    /\ runs = 0

Init == InitOn(Snapshots, {StatusOptions[1]})

\* one execution of main() with the selectbox returning status
main(status) ==
    \E s3ok \in BOOLEAN :
        \E today \in IF s3ok THEN Todays ELSE {NoDate} :
            LET p == Prepare(snapshot, s3ok, today)
            IN  IF p.error # "none"
                THEN out' = Aborted(p, today)
                ELSE \E sorted \in sort_values(FilterByStatus(p.trade_df, status)) :
                        out' = Rendered(p, today, status, sorted)

\* the page is loaded or re-run with the selectbox as it stands
Run ==
    /\ runs < MaxRuns
    /\ runs' = runs + 1
    /\ main(status_filter)
    /\ UNCHANGED <<snapshot, status_filter>>

\* the user picks another option in the selectbox, which re-runs the script
SelectStatus ==
    /\ runs < MaxRuns
    /\ \E i \in 1..Len(out.sink) : out.sink[i] = StatusSelectbox
    /\ \E v \in {StatusOptions[i] : i \in 1..Len(StatusOptions)} \ {status_filter} :
          /\ status_filter' = v
          /\ main(v)
    /\ runs' = runs + 1
    /\ UNCHANGED snapshot

Next == Run \/ SelectStatus

Spec == Init /\ [][Next]_vars

\* the same program over each family of snapshots
SpecAgg == InitOn(AggFrames, {StatusOptions[1]}) /\ [][Next]_vars

SpecRow == InitOn(RowFrames, {StatusOptions[1]}) /\ [][Next]_vars

SpecSort == InitOn(SortFrames, {StatusOptions[1]}) /\ [][Next]_vars

SpecLoad == InitOn(LoadFrames, {StatusOptions[1]}) /\ [][Next]_vars

\* the filter of lines 117-122 on any requested value: main() run with the
\* selectbox value drawn from ViewInputs
FilterNext == Run

FilterSpec == InitOn(SortFrames, ViewInputs) /\ [][FilterNext]_vars

-----------------------------------------------------------------------------
(* Vocabulary of the properties *)

\* the last run went through to the end
Complete == runs > 0 /\ out.error = "none"

RECURSIVE SumOver(_, _)
SumOver(S, f) ==
    IF S = {} THEN 0
    ELSE LET i == CHOOSE x \in S : TRUE IN f[i] + SumOver(S \ {i}, f)

\* the positions of the closed rows of the enriched frame, and of those kept
\* for the symbol grouping
ClosedAt == {i \in 1..Len(out.trade_df) : out.trade_df[i].Pos = "close"}

KeptAt ==
    {i \in ClosedAt : out.trade_df[i].Profit # NaN /\ out.trade_df[i].Profit[1] >= 0}

\* a column of the enriched frame as numbers, a blank cell counting for nothing
Amount(name) ==
    [i \in 1..Len(out.trade_df) |->
        IF out.trade_df[i][name] = NaN THEN 0 ELSE out.trade_df[i][name][1]]

\* the quotient q is exactly a / b * 100
IsPercentOf(q, a, b) == q # NaN /\ q[2] > 0 /\ q[1] * b = a * 100 * q[2]

IdxOf(rows) == {rows[i].idx : i \in 1..Len(rows)}

-----------------------------------------------------------------------------
(* C1: the summary sums Profit and EntrySum over the closed rows only, and  *)
(* percent_roi is total_profit / total_entry * 100, or 0 when total_entry   *)
(* is 0.                                                                    *)

C1_SummaryOverClosed ==
    Complete =>
        LET tp == SumOver(ClosedAt, Amount("Profit"))
            te == SumOver(ClosedAt, Amount("EntrySum"))
        IN  /\ out.summary.total_profit = tp
            /\ out.summary.total_entry = te
            /\ te # 0 => IsPercentOf(out.summary.percent_roi, tp, te)
            /\ te = 0 => out.summary.percent_roi = <<0, 1>>

\* closed (entry 100, profit 20) and (entry 50, profit -5): 15, 150, 10 %
C1_Witness ==
    /\ Complete
    /\ Len(out.trade_df) = 2
    /\ out.trade_df[1].Pos = "close" /\ out.trade_df[2].Pos = "close"
    /\ out.trade_df[1].EntrySum = <<10000>> /\ out.trade_df[1].Profit = <<2000>>
    /\ out.trade_df[2].EntrySum = <<5000>> /\ out.trade_df[2].Profit = <<-500>>
    /\ out.summary.total_profit = 1500
    /\ out.summary.total_entry = 15000
    /\ out.summary.percent_roi = <<10, 1>>

-----------------------------------------------------------------------------
(* C2: Unrealized is (MarkPrice - OpenPrice) * PositionValue for an open    *)
(* row with both prices present and exactly 0 for every other row.          *)

\* the value the claim gives to a row
C2_Expected(r) ==
    IF r.Pos = "open" /\ r.MarkPrice # NaN /\ r.OpenPrice # NaN
    THEN IF r.PositionValue = NaN THEN NaN
         ELSE <<(r.MarkPrice[1] - r.OpenPrice[1]) * r.PositionValue[1]>>
    ELSE <<0>>

\* C2 as stated: the rule above, and Unrealized is never the blank marker
C2_NeverAbsent ==
    Complete =>
        \A i \in 1..Len(out.trade_df) :
            /\ out.trade_df[i].Unrealized = C2_Expected(out.trade_df[i])
            /\ out.trade_df[i].Unrealized # NaN

\* C2 amended: the rule above; Unrealized is blank exactly for an open row
\* with both prices present and PositionValue blank
C2_Unrealized ==
    Complete =>
        \A i \in 1..Len(out.trade_df) :
            LET r == out.trade_df[i]
            IN  /\ r.Unrealized = C2_Expected(r)
                /\ r.Unrealized = NaN <=>
                       (r.Pos = "open" /\ r.MarkPrice # NaN /\ r.OpenPrice # NaN
                            /\ r.PositionValue = NaN)

\* an open row with mark 3, open 1, position value 2, rendered with 4
C2_Witness ==
    /\ Complete
    /\ \E i \in 1..Len(out.trade_df) :
          /\ out.trade_df[i].Pos = "open"
          /\ out.trade_df[i].MarkPrice = <<3>>
          /\ out.trade_df[i].OpenPrice = <<1>>
          /\ out.trade_df[i].PositionValue = <<2>>
          /\ out.trade_df[i].Unrealized = <<4>>

-----------------------------------------------------------------------------
(* C3: the symbol groups are built from the closed rows with Profit >= 0    *)
(* only: one group per symbol among them, each summing exactly those rows,  *)
(* and the groups together sum to the Profit of those rows.                 *)

-----------------------------------------------------------------------------
(* C4: ProfitPercent of a group is Profit / (sum of the groups' Profit)     *)
(* * 100, and 0 when that sum is 0.                                         *)

C4_ShareGuarded ==
    Complete =>
        LET g == out.grouped
            total == SumOver(1..Len(g), [k \in 1..Len(g) |-> g[k].Profit])
        IN  \A k \in 1..Len(g) :
                IF total = 0 THEN g[k].ProfitPercent = <<0, 1>>
                ELSE IsPercentOf(g[k].ProfitPercent, g[k].Profit, total)

-----------------------------------------------------------------------------
(* C5: a requested view other than the three options fails with            *)
(* InvalidFilterError and returns no rows.                                  *)

Recognized == {StatusOptions[i] : i \in 1..Len(StatusOptions)}

\* the last run got as far as the filter: the load and lines 85-104 went through
FilterReached == runs > 0 /\ out.status = status_filter

-----------------------------------------------------------------------------
(* C6: the Open view and the Close view are disjoint and together are the   *)
(* All view.                                                                *)

\* the index labels shown by view v: the table of the last run when it used
\* v, the filter applied to the last run's frame otherwise
ViewIdx(v) ==
    IF out.status = v THEN IdxOf(out.filtered_df)
    ELSE IdxOf(FilterByStatus(out.trade_df, v))

\* C6 as stated
C6_Partition ==
    Complete =>
        /\ ViewIdx("Open") \cap ViewIdx("Close") = {}
        /\ ViewIdx("Open") \cup ViewIdx("Close") = ViewIdx("All")

\* C6 amended: the two views are disjoint and together are the rows of the
\* All view whose Pos is 'open' or 'close'; a row with any other Pos is in
\* the All view alone
C6_PartitionOfRecognized ==
    Complete =>
        /\ ViewIdx("Open") \cap ViewIdx("Close") = {}
        /\ ViewIdx("All") = IdxOf(out.trade_df)
        /\ ViewIdx("Open") \cup ViewIdx("Close") =
               {out.trade_df[i].idx : i \in {j \in 1..Len(out.trade_df) :
                                                out.trade_df[j].Pos \in {"open", "close"}}}

\* the Close view was rendered over a frame holding a closed row and a row
\* whose Pos is neither value
C6_Witness ==
    /\ Complete
    /\ out.status = "Close"
    /\ Len(out.filtered_df) = 1
    /\ \E i \in 1..Len(out.trade_df) : out.trade_df[i].Pos = ""

-----------------------------------------------------------------------------
(* C7: a run that fails has emitted no summary card, table or chart: the    *)
(* failure is all there is in the sink.                                     *)

C7_NoPartialResults ==
    (runs > 0 /\ out.error # "none") =>
        out.sink \in {<<ErrorBox>>, <<ExceptionBox>>}

-----------------------------------------------------------------------------
(* C8: in every run, Profit and EntrySum of the frame, of the table, of the *)
(* summary and of the groups are 100 times the raw cells of the snapshot.   *)

Times100(x) == IF x = NaN THEN NaN ELSE <<100 * x[1]>>

\* 100 times a raw column, a blank cell counting for nothing
Raw100(name) ==
    [i \in 1..Len(snapshot.rows) |->
        IF snapshot.rows[i][name] = NaN THEN 0 ELSE 100 * snapshot.rows[i][name][1]]

\* C8: every Profit and EntrySum the run shows is 100 times its raw cell,
\* in the first run and in every later one
C8_ScaledOnce ==
    Complete =>
        /\ Len(out.trade_df) = Len(snapshot.rows)
        /\ \A i \in 1..Len(out.trade_df) :
              /\ out.trade_df[i].Profit = Times100(snapshot.rows[i].Profit)
              /\ out.trade_df[i].EntrySum = Times100(snapshot.rows[i].EntrySum)
        /\ \A j \in 1..Len(out.filtered_df) :
              LET raw == snapshot.rows[out.filtered_df[j].idx + 1]
              IN  /\ out.filtered_df[j].Profit = Times100(raw.Profit)
                  /\ out.filtered_df[j].EntrySum = Times100(raw.EntrySum)
        /\ out.summary.total_profit = SumOver(ClosedAt, Raw100("Profit"))
        /\ out.summary.total_entry = SumOver(ClosedAt, Raw100("EntrySum"))
        /\ SumOver(1..Len(out.grouped), [k \in 1..Len(out.grouped) |-> out.grouped[k].Profit])
               = SumOver(KeptAt, Raw100("Profit"))

\* raw 1.50 and 0.20 shown as 150.00 and 20.00 in the table of a second run
C8_Witness ==
    /\ Complete
    /\ runs >= 2
    /\ \E j \in 1..Len(out.filtered_df) :
          /\ snapshot.rows[out.filtered_df[j].idx + 1].EntrySum = <<150>>
          /\ snapshot.rows[out.filtered_df[j].idx + 1].Profit = <<20>>
          /\ out.filtered_df[j].EntrySum = <<15000>>
          /\ out.filtered_df[j].Profit = <<2000>>

-----------------------------------------------------------------------------
(* C9: the table is ascending in DTE, and rows with equal DTE keep the      *)
(* order they had in the enriched frame.                                    *)

Ascending(rows) == \A i, j \in 1..Len(rows) : i < j => rows[i].DTE <= rows[j].DTE

-----------------------------------------------------------------------------
(* C10: DTE of every row is the number of days from the run's current date  *)
(* to the expiration date, negative when that date is past.                 *)

\* the dates written by the date strings of the model
DateWritten(x) ==
    IF x = D20240101 THEN <<2024, 1, 1>>
    ELSE IF x = D20240301 THEN <<2024, 3, 1>>
    ELSE NoDate

\* the day after d, in the calendar of 2023 and 2024
DayAfter(d) ==
    LET last == IF d[2] \in {4, 6, 9, 11} THEN 30
                ELSE IF d[2] # 2 THEN 31
                ELSE IF d[1] = 2024 THEN 29 ELSE 28
    IN  IF d[3] < last THEN <<d[1], d[2], d[3] + 1>>
        ELSE IF d[2] < 12 THEN <<d[1], d[2] + 1, 1>>
        ELSE <<d[1] + 1, 1, 1>>

Earlier(a, b) ==
    \/ a[1] < b[1]
    \/ a[1] = b[1] /\ a[2] < b[2]
    \/ a[1] = b[1] /\ a[2] = b[2] /\ a[3] < b[3]

\* the number of days to count from a to reach b
RECURSIVE DaysCounted(_, _)
DaysCounted(a, b) ==
    IF a = b THEN 0
    ELSE IF Earlier(a, b) THEN 1 + DaysCounted(DayAfter(a), b)
    ELSE -DaysCounted(b, a)

\* C10: DTE is the day count from the run's date to the expiration date
C10_DaysToExpiration ==
    Complete =>
        \A i \in 1..Len(out.trade_df) :
            /\ out.trade_df[i].DTE =
                   DaysCounted(out.today, DateWritten(snapshot.rows[i].exp_dt))
            /\ (out.today = <<2023, 12, 20>> /\ snapshot.rows[i].exp_dt = D20240101)
                   => out.trade_df[i].DTE = 12

\* a second run, on 2024-01-05, of a row expired on 2024-01-01: -4
C10_Witness ==
    /\ Complete
    /\ runs >= 2
    /\ out.today = <<2024, 1, 5>>
    /\ \E i \in 1..Len(out.trade_df) :
          /\ snapshot.rows[i].exp_dt = D20240101
          /\ out.trade_df[i].DTE = -4

=============================================================================
